---- MODULE Spec2Model ----
(***************************************************************************)
(* probflow callbacks (src/src/probflow/callbacks.py): the five concrete   *)
(* callbacks, their constructors and their on_epoch_end handlers, driven   *)
(* by a Trainer that runs an epoch loop over a registration list.          *)
(*                                                                         *)
(* Floats are modelled by integers.  Metric values are the integers of     *)
(* FiniteMetrics plus two IEEE specials, NaN and Inf, whose comparison     *)
(* follows IEEE-754 (every ordered comparison with NaN is false).          *)
(* Schedule values are integers counting tenths (10 is 1.0).               *)
(***************************************************************************)
EXTENDS Integers, Sequences, FiniteSets, TLC

\* ---- bounds -------------------------------------------------------------
MaxEpochs == 4
MaxPatience == 1

\* ---- values -------------------------------------------------------------
NaN == -1
Inf == 1000
None == "None"

FiniteMetrics == {4, 5}
MetricVals == FiniteMetrics \cup {NaN, Inf}
Snapshots == {"w=0.1", "w=0.2"}
ParamFilters == {None, "w"}

\* variant: NaN ordered like a number
LtNaive(a, b) == a < b

\* variant: a tie counts as an improvement
LtOrEqual(a, b) == a # NaN /\ b # NaN /\ a <= b

\* float.__lt__ : IEEE comparison, false as soon as one side is NaN
Lt(a, b) == a # NaN /\ b # NaN /\ a < b

\* ---- constructor arguments ------------------------------------------------
\* a candidate for the fn / metric_fn argument: an object that is callable
\* or not, the type of what it returns, and the schedule it computes
FnArgs ==
    {[callable |-> FALSE, rtype |-> "none", body |-> "none"],
     [callable |-> TRUE, rtype |-> "str", body |-> "none"],
     [callable |-> TRUE, rtype |-> "int", body |-> "none"],
     [callable |-> TRUE, rtype |-> "float", body |-> "decay"],
     [callable |-> TRUE, rtype |-> "float", body |-> "warmup"]}

\* what fn(epoch) returns, in tenths: decay 0.5, 0.0, -0.5, ...; warmup 0.5, 1.0, 1.5, ...
Apply(fn, e) == IF fn.body = "decay" THEN 10 - 5 * e ELSE 5 * e

\* a candidate for the patience argument: an int or not (1.5, "3"), and its value
PatienceArgs ==
    {[isint |-> TRUE, v |-> n] : n \in (-1)..MaxPatience}
        \cup {[isint |-> FALSE, v |-> 1]}

\* a candidate for EarlyStopping's metric_fn: the closure of the docstring
\* example (lambda: monitor_mae.current_metric) or a non-callable (5)
AccessorArgs == {[callable |-> TRUE], [callable |-> FALSE]}

Unbuilt == [exists |-> FALSE]

\* ---- the Trainer (self.model), as far as the callbacks use it -------------
CallbackNames == {"lr", "kl", "mm", "mp", "es"}

NewModel ==
    [learning_rate |-> 0, kl_weight |-> 0, is_training |-> FALSE, epoch |-> 0,
     stdout |-> 0,
     lr_calls |-> <<>>, kl_calls |-> <<>>, metric_log |-> <<>>, pm_log |-> <<>>,
     stops |-> <<>>,
     ok |-> [c \in CallbackNames |-> 0], err |-> [c \in CallbackNames |-> 0]]

\* model.set_learning_rate(lr): the call is logged; a raising call sets nothing
Trainer_set_learning_rate(m, v, raises) ==
    [m EXCEPT !.lr_calls = Append(@, v),
              !.learning_rate = IF raises THEN @ ELSE v]

\* model.set_kl_weight(w)
Trainer_set_kl_weight(m, v, raises) ==
    [m EXCEPT !.kl_calls = Append(@, v),
              !.kl_weight = IF raises THEN @ ELSE v]

\* model.metric(metric_fn, data) returning v in the current epoch
Trainer_metric(m, v) ==
    [m EXCEPT !.metric_log = Append(@, [epoch |-> m.epoch, v |-> v])]

\* model.posterior_mean(params) returning snapshot v
Trainer_posterior_mean(m, params, v) ==
    [m EXCEPT !.pm_log = Append(@, [params |-> params, v |-> v])]

\* model.stop_training()
Trainer_stop_training(m) ==
    [m EXCEPT !.is_training = FALSE, !.stops = Append(@, m.epoch)]

\* ---- constructors ---------------------------------------------------------
\* each returns the exception raised ("none" when construction succeeds) and
\* the object built (Unbuilt when it raised)

LearningRateScheduler_init(fn) ==
    IF ~fn.callable THEN [raised |-> "TypeError", obj |-> Unbuilt]
    ELSE IF fn.rtype # "float" THEN [raised |-> "TypeError", obj |-> Unbuilt]
    ELSE [raised |-> "none",
          obj |-> [exists |-> TRUE, fn |-> fn, current_epoch |-> 0,
                   current_lr |-> 0, epochs |-> <<>>, learning_rate |-> <<>>]]

KLWeightScheduler_init(fn) ==
    IF ~fn.callable THEN [raised |-> "TypeError", obj |-> Unbuilt]
    ELSE IF fn.rtype # "float" THEN [raised |-> "TypeError", obj |-> Unbuilt]
    ELSE [raised |-> "none",
          obj |-> [exists |-> TRUE, fn |-> fn, current_epoch |-> 0,
                   current_w |-> 0, epochs |-> <<>>, kl_weights |-> <<>>]]

MonitorMetric_init(verbose) ==
    [raised |-> "none",
     obj |-> [exists |-> TRUE, current_metric |-> NaN, current_epoch |-> 0,
              metrics |-> <<>>, epochs |-> <<>>, verbose |-> verbose]]

MonitorParameter_init(params) ==
    [raised |-> "none",
     obj |-> [exists |-> TRUE, params |-> params, current_params |-> None,
              current_epoch |-> 0, parameter_values |-> <<>>, epochs |-> <<>>]]

\* variant: the sign of patience is not checked
EarlyStopping_init_unsigned(metric_fn, patience) ==
    IF ~patience.isint THEN [raised |-> "TypeError", obj |-> Unbuilt]
    ELSE IF ~metric_fn.callable THEN [raised |-> "TypeError", obj |-> Unbuilt]
    ELSE [raised |-> "none",
          obj |-> [exists |-> TRUE, metric_fn |-> metric_fn,
                   patience |-> patience.v, best |-> Inf, count |-> 0]]

EarlyStopping_init(metric_fn, patience) ==
    IF ~patience.isint THEN [raised |-> "TypeError", obj |-> Unbuilt]
    ELSE IF patience.v < 0 THEN [raised |-> "ValueError", obj |-> Unbuilt]
    ELSE IF ~metric_fn.callable THEN [raised |-> "TypeError", obj |-> Unbuilt]
    ELSE [raised |-> "none",
          obj |-> [exists |-> TRUE, metric_fn |-> metric_fn,
                   patience |-> patience.v, best |-> Inf, count |-> 0]]

\* ---- on_epoch_end handlers ------------------------------------------------
\* each takes the object, the Trainer and what the calls it makes do (raise or
\* return a value) and returns the object, the Trainer and whether it raised

LearningRateScheduler_on_epoch_end(self, m, fault) ==
    LET s1 == [self EXCEPT !.current_epoch = @ + 1]
        s2 == [s1 EXCEPT !.current_lr = Apply(self.fn, s1.current_epoch)]
        m2 == Trainer_set_learning_rate(m, s2.current_lr, fault = "set")
        s3 == [s2 EXCEPT !.epochs = Append(@, s2.current_epoch),
                         !.learning_rate = Append(@, s2.current_lr)]
    IN  IF fault = "fn" THEN [self |-> s1, model |-> m, raised |-> TRUE]
        ELSE IF fault = "set" THEN [self |-> s2, model |-> m2, raised |-> TRUE]
        ELSE [self |-> s3, model |-> m2, raised |-> FALSE]

\* variant: the weight is clamped to [0.0, 1.0] before it is forwarded
Clamp(w) == IF w < 0 THEN 0 ELSE IF w > 10 THEN 10 ELSE w

KLWeightScheduler_on_epoch_end_clamped(self, m, fault) ==
    LET s1 == [self EXCEPT !.current_epoch = @ + 1]
        s2 == [s1 EXCEPT !.current_w = Clamp(Apply(self.fn, s1.current_epoch))]
        m2 == Trainer_set_kl_weight(m, s2.current_w, fault = "set")
        s3 == [s2 EXCEPT !.epochs = Append(@, s2.current_epoch),
                         !.kl_weights = Append(@, s2.current_w)]
    IN  IF fault = "fn" THEN [self |-> s1, model |-> m, raised |-> TRUE]
        ELSE IF fault = "set" THEN [self |-> s2, model |-> m2, raised |-> TRUE]
        ELSE [self |-> s3, model |-> m2, raised |-> FALSE]

KLWeightScheduler_on_epoch_end(self, m, fault) ==
    LET s1 == [self EXCEPT !.current_epoch = @ + 1]
        s2 == [s1 EXCEPT !.current_w = Apply(self.fn, s1.current_epoch)]
        m2 == Trainer_set_kl_weight(m, s2.current_w, fault = "set")
        s3 == [s2 EXCEPT !.epochs = Append(@, s2.current_epoch),
                         !.kl_weights = Append(@, s2.current_w)]
    IN  IF fault = "fn" THEN [self |-> s1, model |-> m, raised |-> TRUE]
        ELSE IF fault = "set" THEN [self |-> s2, model |-> m2, raised |-> TRUE]
        ELSE [self |-> s3, model |-> m2, raised |-> FALSE]

\* variant: the epoch is recorded before the counter is incremented
MonitorMetric_on_epoch_end_early(self, m, fault, v) ==
    LET m1 == Trainer_metric(m, v)
        s1 == [self EXCEPT !.current_metric = v]
        s2 == [s1 EXCEPT !.metrics = Append(@, s1.current_metric),
                         !.epochs = Append(@, s1.current_epoch)]
        s3 == [s2 EXCEPT !.current_epoch = @ + 1]
        m2 == IF self.verbose THEN [m1 EXCEPT !.stdout = @ + 1] ELSE m1
    IN  IF fault = "metric" THEN [self |-> self, model |-> m, raised |-> TRUE]
        ELSE [self |-> s3, model |-> m2, raised |-> FALSE]

\* fault "metric": model.metric raises; otherwise it returns v
MonitorMetric_on_epoch_end(self, m, fault, v) ==
    LET m1 == Trainer_metric(m, v)
        s1 == [self EXCEPT !.current_metric = v]
        s2 == [s1 EXCEPT !.current_epoch = @ + 1]
        s3 == [s2 EXCEPT !.metrics = Append(@, s2.current_metric),
                         !.epochs = Append(@, s2.current_epoch)]
        m2 == IF self.verbose THEN [m1 EXCEPT !.stdout = @ + 1] ELSE m1
    IN  IF fault = "metric" THEN [self |-> self, model |-> m, raised |-> TRUE]
        ELSE [self |-> s3, model |-> m2, raised |-> FALSE]

\* fault "posterior_mean": model.posterior_mean raises; otherwise it returns v
MonitorParameter_on_epoch_end(self, m, fault, v) ==
    LET m1 == Trainer_posterior_mean(m, self.params, v)
        s1 == [self EXCEPT !.current_params = v]
        s2 == [s1 EXCEPT !.current_epoch = @ + 1]
        s3 == [s2 EXCEPT !.parameter_values = Append(@, s2.current_params),
                         !.epochs = Append(@, s2.current_epoch)]
    IN  IF fault = "posterior_mean" THEN [self |-> self, model |-> m, raised |-> TRUE]
        ELSE [self |-> s3, model |-> m1, raised |-> FALSE]

\* variant: the accessor returns the metric of the epoch before
metric_fn_stale(monitor) ==
    IF Len(monitor.metrics) >= 2
    THEN monitor.metrics[Len(monitor.metrics) - 1] ELSE NaN

\* the accessor of the docstring example: lambda: monitor_mae.current_metric
metric_fn(monitor) == monitor.current_metric

\* variant: the stop is signaled as soon as count reaches patience
ExceedsOrEquals(count, patience) == count >= patience

\* the test that decides the stop signal
Exceeds(count, patience) == count > patience

\* variant: once count exceeds patience an improvement no longer resets it
EarlyStopping_on_epoch_end_latched(self, m, metric) ==
    IF Lt(metric, self.best) /\ ~Exceeds(self.count, self.patience)
    THEN [self |-> [self EXCEPT !.best = metric, !.count = 0],
          model |-> m, raised |-> FALSE]
    ELSE LET s1 == [self EXCEPT !.count = @ + 1]
         IN  [self |-> s1,
              model |-> IF Exceeds(s1.count, s1.patience)
                        THEN Trainer_stop_training(m) ELSE m,
              raised |-> FALSE]

EarlyStopping_on_epoch_end(self, m, metric) ==
    IF Lt(metric, self.best)
    THEN [self |-> [self EXCEPT !.best = metric, !.count = 0],
          model |-> m, raised |-> FALSE]
    ELSE LET s1 == [self EXCEPT !.count = @ + 1]
         IN  [self |-> s1,
              model |-> IF Exceeds(s1.count, s1.patience)
                        THEN Trainer_stop_training(m) ELSE m,
              raised |-> FALSE]

VARIABLES
    pc,         \* position of the user's program
    lr,         \* the LearningRateScheduler object
    kl,         \* the KLWeightScheduler object
    mm,         \* the MonitorMetric object
    mp,         \* the MonitorParameter object
    es,         \* the EarlyStopping object
    model,      \* the Trainer the callbacks are attached to (self.model)
    callbacks,  \* the registration list of the fit call
    idx,        \* position of the epoch loop in the registration list, 0 between epochs
    attempt,    \* the last constructor call and how it ended
    seen        \* the values the accessor returned to EarlyStopping, with their epoch

vars == <<pc, lr, kl, mm, mp, es, model, callbacks, idx, attempt, seen>>

\* ---- the user's program: construct the callbacks, then fit ----------------
\* the registration lists a program passes to fit; it constructs the callbacks
\* of its list, a MonitorMetric before the EarlyStopping whose accessor reads it
Orders ==
    {<<"lr", "kl">>, <<"mp">>, <<"mm", "es">>, <<"es", "mm">>, <<"mm", "lr", "es">>}

Construction == <<"lr", "kl", "mm", "mp", "es">>

InOrder(order, c) == \E i \in DOMAIN order : order[i] = c

\* the program position after the first k constructors of Construction
RECURSIVE Goto(_, _)
Goto(order, k) ==
    IF k >= Len(Construction) THEN "ready"
    ELSE IF InOrder(order, Construction[k + 1]) THEN Construction[k + 1]
    ELSE Goto(order, k + 1)

NoAttempt ==
    [cls |-> "none", callable |-> TRUE, rtype |-> "none", isint |-> TRUE, v |-> 0,
     raised |-> "none"]

Init ==
    /\ callbacks \in Orders
    /\ pc = Goto(callbacks, 0)
    /\ lr = Unbuilt /\ kl = Unbuilt /\ mm = Unbuilt /\ mp = Unbuilt /\ es = Unbuilt
    /\ model = NewModel
    /\ idx = 0
    /\ attempt = NoAttempt
    /\ seen = <<>>

\* where the program goes after a constructor call: on, or out with the exception
After(r, k) == IF r.raised = "none" THEN Goto(callbacks, k) ELSE "failed"

NewLearningRateScheduler ==
    /\ pc = "lr"
    /\ \E fn \in FnArgs :
         LET r == LearningRateScheduler_init(fn) IN
         /\ lr' = r.obj
         /\ pc' = After(r, 1)
         /\ attempt' = [NoAttempt EXCEPT !.cls = "lr", !.callable = fn.callable,
                                         !.rtype = fn.rtype, !.raised = r.raised]
    /\ UNCHANGED <<kl, mm, mp, es, model, callbacks, idx, seen>>

NewKLWeightScheduler ==
    /\ pc = "kl"
    /\ \E fn \in FnArgs :
         LET r == KLWeightScheduler_init(fn) IN
         /\ kl' = r.obj
         /\ pc' = After(r, 2)
         /\ attempt' = [NoAttempt EXCEPT !.cls = "kl", !.callable = fn.callable,
                                         !.rtype = fn.rtype, !.raised = r.raised]
    /\ UNCHANGED <<lr, mm, mp, es, model, callbacks, idx, seen>>

NewMonitorMetric ==
    /\ pc = "mm"
    /\ \E verbose \in BOOLEAN :
         LET r == MonitorMetric_init(verbose) IN
         /\ mm' = r.obj
         /\ pc' = After(r, 3)
         /\ attempt' = [NoAttempt EXCEPT !.cls = "mm", !.raised = r.raised]
    /\ UNCHANGED <<lr, kl, mp, es, model, callbacks, idx, seen>>

NewMonitorParameter ==
    /\ pc = "mp"
    /\ \E params \in ParamFilters :
         LET r == MonitorParameter_init(params) IN
         /\ mp' = r.obj
         /\ pc' = After(r, 4)
         /\ attempt' = [NoAttempt EXCEPT !.cls = "mp", !.raised = r.raised]
    /\ UNCHANGED <<lr, kl, mm, es, model, callbacks, idx, seen>>

NewEarlyStopping ==
    /\ pc = "es"
    /\ \E a \in AccessorArgs, patience \in PatienceArgs :
         LET r == EarlyStopping_init(a, patience) IN
         /\ es' = r.obj
         /\ pc' = After(r, 5)
         /\ attempt' = [NoAttempt EXCEPT !.cls = "es", !.callable = a.callable,
                                         !.isint = patience.isint, !.v = patience.v,
                                         !.raised = r.raised]
    /\ UNCHANGED <<lr, kl, mm, mp, model, callbacks, idx, seen>>

\* ---- the Trainer's epoch loop ---------------------------------------------
\* model.fit(..., callbacks=order)
Fit ==
    /\ pc = "ready"
    /\ model' = [model EXCEPT !.is_training = TRUE]
    /\ pc' = "fit"
    /\ idx' = 0
    /\ UNCHANGED <<lr, kl, mm, mp, es, callbacks, attempt, seen>>

\* a later fit call with the same callbacks, after a run ended or aborted
Refit ==
    /\ pc \in {"done", "aborted"}
    /\ model.epoch < MaxEpochs
    /\ model' = [model EXCEPT !.is_training = TRUE]
    /\ pc' = "fit"
    /\ idx' = 0
    /\ UNCHANGED <<lr, kl, mm, mp, es, callbacks, attempt, seen>>

\* one epoch of training is over: the callbacks are called next
BeginEpoch ==
    /\ pc = "fit" /\ idx = 0
    /\ model.epoch < MaxEpochs
    /\ model' = [model EXCEPT !.epoch = @ + 1]
    /\ idx' = 1
    /\ UNCHANGED <<pc, lr, kl, mm, mp, es, callbacks, attempt, seen>>

Turn(c) == pc = "fit" /\ idx >= 1 /\ callbacks[idx] = c

\* the loop's call of callback c came back with result r: an exception leaves
\* the loop; otherwise the next callback is called, and after the last one the
\* loop ends when training was stopped
Dispatch(c, r) ==
    IF r.raised
    THEN /\ model' = [r.model EXCEPT !.err[c] = @ + 1]
         /\ pc' = "aborted"
         /\ idx' = 0
    ELSE /\ model' = [r.model EXCEPT !.ok[c] = @ + 1]
         /\ idx' = IF idx < Len(callbacks) THEN idx + 1 ELSE 0
         /\ pc' = IF idx = Len(callbacks) /\ ~r.model.is_training THEN "done" ELSE "fit"

LrOnEpochEnd ==
    /\ Turn("lr")
    /\ \E fault \in {"none", "fn", "set"} :
         LET r == LearningRateScheduler_on_epoch_end(lr, model, fault) IN
         /\ lr' = r.self
         /\ Dispatch("lr", r)
    /\ UNCHANGED <<kl, mm, mp, es, callbacks, attempt, seen>>

KlOnEpochEnd ==
    /\ Turn("kl")
    /\ \E fault \in {"none", "fn", "set"} :
         LET r == KLWeightScheduler_on_epoch_end(kl, model, fault) IN
         /\ kl' = r.self
         /\ Dispatch("kl", r)
    /\ UNCHANGED <<lr, mm, mp, es, callbacks, attempt, seen>>

MmOnEpochEnd ==
    /\ Turn("mm")
    /\ \E fault \in {"none", "metric"}, v \in MetricVals :
         LET r == MonitorMetric_on_epoch_end(mm, model, fault, v) IN
         /\ mm' = r.self
         /\ Dispatch("mm", r)
    /\ UNCHANGED <<lr, kl, mp, es, callbacks, attempt, seen>>

MpOnEpochEnd ==
    /\ Turn("mp")
    /\ \E fault \in {"none", "posterior_mean"}, v \in Snapshots :
         LET r == MonitorParameter_on_epoch_end(mp, model, fault, v) IN
         /\ mp' = r.self
         /\ Dispatch("mp", r)
    /\ UNCHANGED <<lr, kl, mm, es, callbacks, attempt, seen>>

EsOnEpochEnd ==
    /\ Turn("es")
    /\ LET metric == metric_fn(mm)
           r == EarlyStopping_on_epoch_end(es, model, metric) IN
         /\ es' = r.self
         /\ seen' = Append(seen, [epoch |-> model.epoch, v |-> metric])
         /\ Dispatch("es", r)
    /\ UNCHANGED <<lr, kl, mm, mp, callbacks, attempt>>

Next ==
    \/ NewLearningRateScheduler
    \/ NewKLWeightScheduler
    \/ NewMonitorMetric
    \/ NewMonitorParameter
    \/ NewEarlyStopping
    \/ Fit
    \/ Refit
    \/ BeginEpoch
    \/ LrOnEpochEnd
    \/ KlOnEpochEnd
    \/ MmOnEpochEnd
    \/ MpOnEpochEnd
    \/ EsOnEpochEnd

Spec == Init /\ [][Next]_vars

TypeOK == pc \in {"lr", "kl", "mm", "mp", "es", "ready", "fit",
                  "done", "aborted", "failed"}

\* ---- vocabulary of the properties -----------------------------------------
Range(n) == [i \in 1..n |-> i]
Vals(h) == [i \in DOMAIN h |-> h[i].v]
Front(h) == SubSeq(h, 1, Len(h) - 1)
Last(h) == h[Len(h)]

\* v is a strict improvement over b, by IEEE comparison
Below(v, b) == v # NaN /\ b # NaN /\ v < b

\* the best value after the reads of history h, recomputed from the history
RECURSIVE BestAfter(_)
BestAfter(h) ==
    IF h = <<>> THEN Inf
    ELSE LET b == BestAfter(Front(h)) IN
         IF Below(Last(h).v, b) THEN Last(h).v ELSE b

\* the number of consecutive non-improving reads that end history h
RECURSIVE Trail(_)
Trail(h) ==
    IF h = <<>> THEN 0
    ELSE IF Below(Last(h).v, BestAfter(Front(h))) THEN 0
    ELSE Trail(Front(h)) + 1

\* stop_training was called during the callbacks of epoch e
SignalledIn(e) == \E i \in DOMAIN model.stops : model.stops[i] = e

\* this step is a call of EarlyStopping.on_epoch_end
EsCall == Turn("es") /\ Len(seen') = Len(seen) + 1
EsSignals == Len(model'.stops) = Len(model.stops) + 1
EsSilent == model'.stops = model.stops

\* the value the accessor returned in this call
ValueRead == seen'[Len(seen')].v

Registered(c) == \E i \in DOMAIN callbacks : callbacks[i] = c
Before(c, d) ==
    \E i, j \in DOMAIN callbacks : i < j /\ callbacks[i] = c /\ callbacks[j] = d

\* ---- C1 -------------------------------------------------------------------
\* the stop decision of one call, and what it means over the history of reads
StopIff ==
    [][EsCall =>
        LET v == ValueRead IN
        EsSignals <=> (~Below(v, es.best) /\ es'.count = es.count + 1
                                          /\ es'.count > es.patience)]_vars

Tolerance ==
    es.exists =>
        /\ es.count = Trail(seen)
        /\ es.best = BestAfter(seen)
        /\ \A n \in DOMAIN seen :
             SignalledIn(seen[n].epoch) <=> Trail(SubSeq(seen, 1, n)) > es.patience

ZeroPatienceLater ==
    es.exists /\ es.patience = 0 =>
        \A n \in DOMAIN seen :
            n >= 2 /\ ~Below(seen[n].v, BestAfter(SubSeq(seen, 1, n - 1)))
                => SignalledIn(seen[n].epoch)

\* C1 as stated: the stop is signaled in a call iff the value read is not
\* strictly below best and the incremented count exceeds patience; p
\* non-improving epochs are tolerated and the (p+1)-th signals; with patience 0
\* the first call, whatever its value, establishes best without signaling.
C1_Original ==
    /\ StopIff
    /\ [](Tolerance /\ ZeroPatienceLater)
    /\ [](es.exists /\ es.patience = 0 /\ Len(seen) = 1
            => es.best = seen[1].v /\ ~SignalledIn(seen[1].epoch))

\* C1 amended: the same, where with patience 0 the first call establishes best
\* without signaling exactly when its value is strictly below +infinity; a
\* first value of NaN or +infinity is non-improving and signals at once.
C1_StopExactlyWhenCountExceedsPatience ==
    /\ StopIff
    /\ [](Tolerance /\ ZeroPatienceLater)
    /\ [](es.exists /\ es.patience = 0 /\ Len(seen) = 1 =>
            IF Below(seen[1].v, Inf)
            THEN es.best = seen[1].v /\ ~SignalledIn(seen[1].epoch)
            ELSE es.best = Inf /\ SignalledIn(seen[1].epoch))

\* patience 1: an improvement, one tolerated epoch, then the signal
C1_Witness ==
    /\ es.exists /\ es.patience = 1
    /\ Vals(seen) = <<5, 5, 5>>
    /\ model.stops = <<seen[3].epoch>>

\* ---- C2 -------------------------------------------------------------------
\* C2 as stated: patience 1 and reads 5, 4, 4: after call 2 count is 1 and no
\* stop was signaled; call 3 makes count 2 and signals the stop.
C2_Original ==
    es.exists /\ es.patience = 1 =>
        /\ Vals(seen) = <<5, 4>> => es.count = 1 /\ model.stops = <<>>
        /\ Vals(seen) = <<5, 4, 4>> => es.count = 2 /\ SignalledIn(seen[3].epoch)

\* C2 amended: patience 1 and reads 5, 4, 4: call 2 is a strict improvement, so
\* after it count is 0 and best is 4; call 3 makes count 1, which is not above
\* 1, and no stop is signaled in any of the three calls.
C2_Scenario ==
    es.exists /\ es.patience = 1 =>
        /\ Vals(seen) = <<5, 4>> => es.count = 0 /\ es.best = 4 /\ model.stops = <<>>
        /\ Vals(seen) = <<5, 4, 4>> => es.count = 1 /\ es.best = 4 /\ model.stops = <<>>

C2_Witness == es.exists /\ es.patience = 1 /\ Vals(seen) = <<5, 4, 4>>

\* ---- C3 -------------------------------------------------------------------
\* C3: a value equal to best, or equal to the value of the previous call,
\* leaves best unchanged and adds exactly 1 to count; best changes and count
\* becomes 0 only in a call whose value is strictly below best.
C3_StrictImprovementOnly ==
    [][EsCall =>
        LET v == ValueRead IN
        /\ v = es.best => es'.best = es.best /\ es'.count = es.count + 1
        /\ seen # <<>> /\ v = Last(seen).v
              => es'.best = es.best /\ es'.count = es.count + 1
        /\ es'.best # es.best \/ es'.count = 0 => Below(v, es.best)]_vars

\* the same finite value read twice: the second read was counted
C3_Witness ==
    /\ es.exists /\ Len(seen) = 2
    /\ seen[1].v = 4 /\ seen[2].v = 4
    /\ es.best = 4 /\ es.count = 1

\* ---- C4 -------------------------------------------------------------------
\* C4: after e on_epoch_end calls of a scheduler, none of which raised,
\* current_epoch = e, epochs = [1..e], the value history is [f(1)..f(e)] and
\* the Trainer's mutator was called once per call, with f(i) unclamped on call
\* i; the mutator call of an epoch comes before that epoch's history entry.
C4_SchedulerHistory ==
    /\ lr.exists =>
         /\ Len(model.lr_calls) >= Len(lr.learning_rate)
         /\ model.err["lr"] = 0 =>
              LET e == model.ok["lr"] IN
              /\ lr.current_epoch = e
              /\ lr.epochs = Range(e)
              /\ lr.learning_rate = [i \in 1..e |-> Apply(lr.fn, i)]
              /\ model.lr_calls = [i \in 1..e |-> Apply(lr.fn, i)]
              /\ e >= 1 => model.learning_rate = Apply(lr.fn, e)
    /\ kl.exists =>
         /\ Len(model.kl_calls) >= Len(kl.kl_weights)
         /\ model.err["kl"] = 0 =>
              LET e == model.ok["kl"] IN
              /\ kl.current_epoch = e
              /\ kl.epochs = Range(e)
              /\ kl.kl_weights = [i \in 1..e |-> Apply(kl.fn, i)]
              /\ model.kl_calls = [i \in 1..e |-> Apply(kl.fn, i)]
              /\ e >= 1 => model.kl_weight = Apply(kl.fn, e)

\* three epochs of a warmup schedule: the KL weight went past 1.0
C4_Witness ==
    /\ kl.exists /\ lr.exists
    /\ model.ok["kl"] = 3 /\ model.err["kl"] = 0
    /\ model.ok["lr"] = 3 /\ model.err["lr"] = 0
    /\ kl.kl_weights = <<5, 10, 15>>
    /\ model.kl_weight = 15

\* ---- C5 -------------------------------------------------------------------
\* C5: before any on_epoch_end call current_metric is NaN, current_params is
\* None and the histories are empty; after n calls that returned,
\* current_epoch = n, epochs = [1..n], and the i-th history entry, like the
\* current value after call i, is what the Trainer returned on call i;
\* posterior_mean is called with the configured filter.
C5_PureRecorders ==
    /\ mm.exists =>
         LET n == model.ok["mm"] IN
         /\ mm.current_epoch = n
         /\ mm.epochs = Range(n)
         /\ mm.metrics = Vals(model.metric_log)
         /\ Len(mm.metrics) = n
         /\ mm.current_metric = IF n = 0 THEN NaN ELSE Last(model.metric_log).v
    /\ mp.exists =>
         LET n == model.ok["mp"] IN
         /\ mp.current_epoch = n
         /\ mp.epochs = Range(n)
         /\ mp.parameter_values = Vals(model.pm_log)
         /\ Len(mp.parameter_values) = n
         /\ mp.current_params = IF n = 0 THEN None ELSE Last(model.pm_log).v
         /\ \A i \in DOMAIN model.pm_log : model.pm_log[i].params = mp.params

\* two recorded epochs with different metrics, after a call that raised
C5_Witness ==
    /\ mm.exists /\ model.ok["mm"] = 2 /\ model.err["mm"] = 1
    /\ mm.metrics = <<5, 4>> /\ mm.current_metric = 4

\* ---- C6 -------------------------------------------------------------------
\* C6: with MonitorMetric registered before EarlyStopping, the value
\* EarlyStopping reads in an epoch is the metric the Trainer computed in that
\* same epoch, and the stop decision of the epoch follows from it.
C6_SameEpochMetric ==
    es.exists /\ Before("mm", "es") =>
        \A n \in DOMAIN seen :
            /\ \E j \in DOMAIN model.metric_log :
                 /\ model.metric_log[j].epoch = seen[n].epoch
                 /\ model.metric_log[j].v = seen[n].v
            /\ SignalledIn(seen[n].epoch) <=>
                 LET h == [i \in 1..n |-> model.metric_log[
                              CHOOSE j \in DOMAIN model.metric_log :
                                  model.metric_log[j].epoch = seen[i].epoch]]
                 IN  Trail(h) > es.patience

\* the metric of epoch 2 differs from that of epoch 1 and is the one read
C6_Witness ==
    /\ es.exists /\ Before("mm", "es")
    /\ Len(seen) = 2
    /\ seen[1].v = 4 /\ seen[2].v = 5
    /\ SignalledIn(seen[2].epoch)

\* ---- C7 -------------------------------------------------------------------
\* the program has constructed callbacks and not yet called fit
BeforeFit == pc \in {"lr", "kl", "mm", "mp", "es", "ready"}

\* C7: a scheduler's constructor raises exactly when fn is not callable or
\* fn(1) is not a float, EarlyStopping's exactly when patience is not an int,
\* is negative, or metric_fn is not callable; a raising constructor produces
\* no object and calls no Trainer method; a successful one leaves
\* current_epoch = 0 and empty histories, or best = +infinity and count = 0.
C7_FailFastConstruction ==
    /\ pc = "failed" <=> attempt.raised # "none"
    /\ pc = "failed" => model = NewModel
    /\ attempt.cls = "lr" =>
         /\ attempt.raised # "none" <=> (~attempt.callable \/ attempt.rtype # "float")
         /\ attempt.raised # "none" => ~lr.exists
         /\ attempt.raised = "none" /\ BeforeFit =>
              /\ lr.exists /\ lr.current_epoch = 0
              /\ lr.epochs = <<>> /\ lr.learning_rate = <<>>
    /\ attempt.cls = "kl" =>
         /\ attempt.raised # "none" <=> (~attempt.callable \/ attempt.rtype # "float")
         /\ attempt.raised # "none" => ~kl.exists
         /\ attempt.raised = "none" /\ BeforeFit =>
              /\ kl.exists /\ kl.current_epoch = 0
              /\ kl.epochs = <<>> /\ kl.kl_weights = <<>>
    /\ attempt.cls = "es" =>
         /\ attempt.raised # "none" <=>
              (~attempt.isint \/ attempt.v < 0 \/ ~attempt.callable)
         /\ attempt.raised # "none" => ~es.exists
         /\ attempt.raised = "none" /\ BeforeFit =>
              /\ es.exists /\ es.best = Inf /\ es.count = 0
              /\ es.patience = attempt.v

\* EarlyStopping(metric_fn=lambda: 1.0, patience=-1) raised
C7_Witness ==
    /\ pc = "failed" /\ attempt.cls = "es"
    /\ attempt.isint /\ attempt.v = -1 /\ attempt.callable
    /\ attempt.raised = "ValueError" /\ ~es.exists

\* ---- C8 -------------------------------------------------------------------
\* the first stop signal ends a run of more than patience non-improving calls
FirstSignalAfterPatience ==
    es.exists /\ model.stops # <<>> =>
        \E n \in DOMAIN seen :
            /\ seen[n].epoch = model.stops[1]
            /\ Trail(SubSeq(seen, 1, n)) > es.patience

ImprovingCallResets ==
    [][EsCall /\ model.stops # <<>> /\ Below(ValueRead, es.best) =>
        es'.best = ValueRead /\ es'.count = 0 /\ EsSilent]_vars

\* C8 as stated: once a stop was signaled, every later non-improving call
\* increments count and signals again, and a strictly improving call sets
\* best, resets count and does not signal; the first signal comes after more
\* than patience consecutive non-improving calls.
C8_Original ==
    /\ [][EsCall /\ model.stops # <<>> /\ ~Below(ValueRead, es.best) =>
            es'.count = es.count + 1 /\ EsSignals]_vars
    /\ ImprovingCallResets
    /\ []FirstSignalAfterPatience

\* C8 amended: once a stop was signaled, every later non-improving call
\* increments count, and signals again when the incremented count exceeds
\* patience, which is every such call made while count still exceeds patience
\* (no improvement since the signal); after an improving call reset count, up
\* to patience non-improving calls are tolerated again without a signal.
C8_NotLatched ==
    /\ [][EsCall /\ model.stops # <<>> /\ ~Below(ValueRead, es.best) =>
            /\ es'.count = es.count + 1
            /\ es.count > es.patience => EsSignals
            /\ EsSignals <=> es'.count > es.patience]_vars
    /\ ImprovingCallResets
    /\ []FirstSignalAfterPatience

\* a stop, then an improvement that resets count, then a non-improving call
\* that patience 1 tolerates
C8_Witness ==
    /\ es.exists /\ es.patience = 1
    /\ Len(seen) = 4
    /\ model.stops = <<seen[2].epoch>>
    /\ es.best = 4 /\ es.count = 1

\* ---- C9 -------------------------------------------------------------------
\* C9: in every reachable state, states reached through an on_epoch_end call
\* that raised included, each recorder and scheduler has
\* current_epoch = len(epochs) = len(value history) and epochs = [1..current_epoch].
C9_HistoryLengthInvariant ==
    /\ lr.exists =>
         /\ lr.current_epoch = Len(lr.epochs)
         /\ Len(lr.learning_rate) = Len(lr.epochs)
         /\ lr.epochs = Range(lr.current_epoch)
    /\ kl.exists =>
         /\ kl.current_epoch = Len(kl.epochs)
         /\ Len(kl.kl_weights) = Len(kl.epochs)
         /\ kl.epochs = Range(kl.current_epoch)
    /\ mm.exists =>
         /\ mm.current_epoch = Len(mm.epochs)
         /\ Len(mm.metrics) = Len(mm.epochs)
         /\ mm.epochs = Range(mm.current_epoch)
    /\ mp.exists =>
         /\ mp.current_epoch = Len(mp.epochs)
         /\ Len(mp.parameter_values) = Len(mp.epochs)
         /\ mp.epochs = Range(mp.current_epoch)

\* ---- C10 ------------------------------------------------------------------
\* C10: a call in which the accessor returns NaN is non-improving: best is
\* unchanged and is never NaN, count is incremented, and the stop is signaled
\* iff the incremented count exceeds patience; with patience 0 and
\* EarlyStopping registered before the MonitorMetric it reads, the stop is
\* signaled in the first epoch, before the Trainer computed any metric.
C10_NaNIsNonImproving ==
    /\ [][EsCall /\ ValueRead = NaN =>
            /\ es'.best = es.best
            /\ es'.count = es.count + 1
            /\ EsSignals <=> es'.count > es.patience]_vars
    /\ [](es.exists => es.best # NaN)
    /\ [][EsCall /\ seen = <<>> /\ Before("es", "mm") =>
            /\ ValueRead = NaN
            /\ model.metric_log = <<>>
            /\ es.patience = 0 => EsSignals /\ ~model'.is_training]_vars

\* the first epoch of a run with EarlyStopping registered first
C10_Witness ==
    /\ es.exists /\ es.patience = 0 /\ Before("es", "mm")
    /\ Len(seen) = 1 /\ seen[1].v = NaN
    /\ model.metric_log = <<>>
    /\ model.stops = <<1>>
    /\ es.best = Inf /\ es.count = 1

====
